---------------------------- MODULE Spec2Model ----------------------------
(***************************************************************************)
(* Health & Supplements Log (streamlit_app.py).                           *)
(*                                                                         *)
(* The script is re-run from top to bottom on every interaction.  One run  *)
(* is: the entry form (a submission builds rec and calls save_row), then   *)
(* load_df, then the trend filters, the mask, and the charts.  The only    *)
(* state that outlives a run is the remote table health_logs.              *)
(*                                                                         *)
(* Values.  A cell of a row (a JSON value of the table, a Python value of  *)
(* rec, a cell of the DataFrame) is a tagged record, so that a string, a   *)
(* number, a parsed date and a missing value are different values:         *)
(*   Null        None / SQL NULL / NaN / NaT                               *)
(*   Num(n)      a number (floats of the form are whole numbers here)      *)
(*   Bool(b)     a boolean                                                 *)
(*   Text(s)     a string, s its sequence of tokens (" " is whitespace)    *)
(*   IsoDate(d)  the string "YYYY-MM-DD" of day d                          *)
(*   Hms(h,m,s)  the string "HH:MM:SS"                                     *)
(*   Bad         a string that parses neither as date, time nor number     *)
(*   DateVal(d)  a datetime.date          TimeVal(t)  a datetime.time      *)
(* A day is a day number; a time of day is seconds since midnight.         *)
(***************************************************************************)
EXTENDS Integers, Sequences, FiniteSets, TLC

VARIABLES
    store,          \* the rows of table health_logs, in insertion order
    pc,             \* position of the script: "idle", "load", "filter"
    submitted,      \* st.form_submit_button's value in the current run
    form,           \* the widget values of the entry form in the current run
    insert_result,  \* "none", "ok" or "raised": what save_row did in the run
    ui,             \* the messages and charts the current run has shown
    df,             \* the DataFrame load_df returned in the current run
    supp_filter,    \* the multiselect's value
    date_range,     \* the date_input's value, <<start, end>>
    v,              \* the filtered, date-sorted frame
    normed,         \* norm(v[c]) for every usable column c
    comp            \* the "Composite performance" column

vars == <<store, pc, submitted, form, insert_result, ui, df, supp_filter,
          date_range, v, normed, comp>>

---------------------------------------------------------------------------
(* Bounds of the model *)

\* The most submissions that succeed in a behaviour of Spec.
MaxSaves == 2

\* The most rows of a table that SpecTrend and SpecRead start from.
MaxRows == 3

\* The days of the model are 1..MaxDate.
MaxDate == 2

Dates == 1..MaxDate

---------------------------------------------------------------------------
(* Cells *)

Null == [k |-> "null"]

Num(n) == [k |-> "num", n |-> n]

Bool(b) == [k |-> "bool", b |-> b]

Text(s) == [k |-> "str", s |-> s]

IsoDate(d) == [k |-> "isodate", d |-> d]

Hms(h, m, s) == [k |-> "hms", h |-> h, m |-> m, s |-> s]

Bad == [k |-> "bad"]

DateVal(d) == [k |-> "date", d |-> d]

TimeVal(t) == [k |-> "time", t |-> t]

---------------------------------------------------------------------------
(* Program constants *)

EFFICACY_SCALE == <<1, 2, 3, 4, 5, 6, 7, 8, 9, 10>>

SUPPLEMENT_OPTIONS ==
    << "Essential Capsules", "Advanced Antioxidants",
       "NAC Ginger Curcumin", "Red Yeast Rice Garlic" >>

\* The free-text widgets (st.text_area) of the form.
TEXT_FIELDS ==
    {"breakfast", "lunch", "snack", "dinner", "initial_reaction",
     "morning_mood", "notes"}

\* The columns load_df parses as times, and those it coerces to numbers.
TIME_COLS == {"wake_time", "dinner_time", "supplement_time"}

NUMERIC_COLS ==
    {"sleep_hours", "melatonin_mg", "sunlight_hours", "workout_intensity",
     "am_med_efficacy", "afternoon_med_efficacy", "pm_med_efficacy"}

\* The six columns of the composite score.
TRACKED_COLS ==
    <<"sleep_hours", "sunlight_hours", "workout_intensity",
      "am_med_efficacy", "afternoon_med_efficacy", "pm_med_efficacy">>

---------------------------------------------------------------------------
(* The entry form *)

\* The widget values of a fresh form: each widget's value= / index= default.
\* date.today() is day 1.
FormDefault ==
    [ dte |-> 1,
      supplement |-> SUPPLEMENT_OPTIONS[1],
      sleep_hours |-> 0,
      melatonin_taken |-> FALSE,
      melatonin_mg |-> 0,
      wake_time |-> 6 * 3600,
      workout |-> FALSE,
      workout_intensity |-> 0,
      sunlight_hours |-> 0,
      breakfast |-> <<>>,
      lunch |-> <<>>,
      snack |-> <<>>,
      dinner |-> <<>>,
      dinner_time |-> 19 * 3600,
      supplement_time |-> 8 * 3600 + 30 * 60,
      initial_reaction |-> <<>>,
      morning_mood |-> <<>>,
      am_med_efficacy |-> EFFICACY_SCALE[7],
      afternoon_med_efficacy |-> EFFICACY_SCALE[7],
      pm_med_efficacy |-> EFFICACY_SCALE[7],
      notes |-> <<>> ]

\* str.strip(): leading and trailing whitespace removed.
RECURSIVE LStrip(_)
LStrip(s) == IF s # <<>> /\ Head(s) = " " THEN LStrip(Tail(s)) ELSE s

RECURSIVE RStrip(_)
RStrip(s) ==
    IF s # <<>> /\ s[Len(s)] = " " THEN RStrip(SubSeq(s, 1, Len(s) - 1)) ELSE s

Strip(s) == RStrip(LStrip(s))

\* x.strip() or None
StripOrNone(s) == IF Strip(s) = <<>> THEN Null ELSE Text(Strip(s))

\* str(dte) of a datetime.date
DateStr(d) == IsoDate(d)

\* TimeStr with the 12-hour directive %I in place of %H.
TimeStr12h(t) ==
    Hms(IF (t \div 3600) % 12 = 0 THEN 12 ELSE (t \div 3600) % 12,
        (t % 3600) \div 60, t % 60)

\* t.strftime("%H:%M:%S") if t else None; a datetime.time is always true.
TimeStr(t) == Hms(t \div 3600, (t % 3600) \div 60, t % 60)

\* DependentCell with the checkbox ignored: the widget's value is kept.
DependentCellKept(flag, x) == Num(x)

\* (float(x) if flag else None), (int(x) if flag else None): the value of a
\* widget that depends on a checkbox.
DependentCell(flag, x) == IF flag THEN Num(x) ELSE Null

\* The dict rec the submit handler builds from the widget values.
Rec(f) ==
    [ date |-> DateStr(f.dte),
      supplement |-> Text(<<f.supplement>>),
      sleep_hours |-> Num(f.sleep_hours),
      melatonin_taken |-> Bool(f.melatonin_taken),
      melatonin_mg |-> DependentCell(f.melatonin_taken, f.melatonin_mg),
      wake_time |-> TimeStr(f.wake_time),
      workout |-> Bool(f.workout),
      workout_intensity |-> DependentCell(f.workout, f.workout_intensity),
      breakfast |-> StripOrNone(f.breakfast),
      sunlight_hours |-> Num(f.sunlight_hours),
      lunch |-> StripOrNone(f.lunch),
      snack |-> StripOrNone(f.snack),
      dinner |-> StripOrNone(f.dinner),
      dinner_time |-> TimeStr(f.dinner_time),
      supplement_time |-> TimeStr(f.supplement_time),
      initial_reaction |-> StripOrNone(f.initial_reaction),
      morning_mood |-> StripOrNone(f.morning_mood),
      am_med_efficacy |-> Num(f.am_med_efficacy),
      afternoon_med_efficacy |-> Num(f.afternoon_med_efficacy),
      pm_med_efficacy |-> Num(f.pm_med_efficacy),
      notes |-> StripOrNone(f.notes) ]

---------------------------------------------------------------------------
(* The persistence calls *)

\* save_row's payload: every "" value becomes None.
Payload(rec) ==
    [c \in DOMAIN rec |-> IF rec[c] = Text(<<>>) THEN Null ELSE rec[c]]

\* InsertRow as an upsert on the content: a payload the table already holds
\* is not written again.
InsertRowUnique(table, payload) ==
    IF \E i \in 1..Len(table) : \A c \in DOMAIN payload : table[i][c] = payload[c]
    THEN table
    ELSE Append(table, [id |-> Num(Len(table) + 1)] @@ payload)

\* sb.table(TABLE).insert(payload).execute() when it succeeds: one row is
\* appended, with the identifier the table assigns.
InsertRow(table, payload) ==
    Append(table, [id |-> Num(Len(table) + 1)] @@ payload)

\* The table after save_row(rec) has returned.
save_row(table, rec) == InsertRow(table, Payload(rec))

---------------------------------------------------------------------------
(* load_df *)

\* select("*").order("date"): some arrangement of the rows in which the
\* dates ascend.  The order of rows of equal date is the database's choice,
\* and so is the place of a row whose date does not compare.
DateOrdered(rows) ==
    \A i, j \in 1..Len(rows) :
        (i < j /\ rows[i].date.k = "isodate" /\ rows[j].date.k = "isodate")
            => rows[i].date.d <= rows[j].date.d

\* A select answered from a snapshot taken before the newest row was written.
SelectStale(table) ==
    LET old == SubSeq(table, 1, Len(table) - 1)
    IN  { rows \in { [i \in 1..Len(old) |-> old[p[i]]] :
                        p \in Permutations(1..Len(old)) } : DateOrdered(rows) }

SelectOrderByDate(table) ==
    { rows \in { [i \in 1..Len(table) |-> table[p[i]]] :
                    p \in Permutations(1..Len(table)) } : DateOrdered(rows) }

\* pd.to_datetime(x, errors="coerce").dt.date
ParseDate(x) == IF x.k = "isodate" THEN DateVal(x.d) ELSE Null

\* pd.to_datetime(x, errors="coerce").dt.time
ParseTime(x) ==
    IF x.k = "hms" /\ x.h \in 0..23 /\ x.m \in 0..59 /\ x.s \in 0..59
    THEN TimeVal(x.h * 3600 + x.m * 60 + x.s)
    ELSE Null

\* pd.to_numeric(x, errors="coerce")
ToNumeric(x) == IF x.k = "num" THEN x ELSE Null

\* The parsing of one row: every column is converted on its own, and a row
\* is never removed.
ParseRow(r) ==
    [c \in DOMAIN r |->
        IF c = "date" THEN ParseDate(r[c])
        ELSE IF c \in TIME_COLS THEN ParseTime(r[c])
        ELSE IF c \in NUMERIC_COLS THEN ToNumeric(r[c])
        ELSE r[c]]

\* load_df that leaves out every row in which a value failed to parse.
load_df_dropping(data) ==
    LET kept == SelectSeq(data, LAMBDA r :
                    \A c \in DOMAIN r : ParseRow(r)[c] = Null => r[c] = Null)
    IN  [i \in 1..Len(kept) |-> ParseRow(kept[i])]

\* load_df on the rows the select returned (res.data).
load_df(data) == [i \in 1..Len(data) |-> ParseRow(data[i])]

---------------------------------------------------------------------------
(* Inputs of the model *)

\* Form inputs of the entry runs: the fresh form, and the fresh form with
\* one widget group changed: melatonin taken (0 mg, 3 mg), a workout, both
\* dependent values entered with both boxes unchecked, a free text (blank,
\* padded), a wake time of midnight, another date.
EntryForms ==
    {[FormDefault EXCEPT !.melatonin_taken = TRUE, !.melatonin_mg = m] :
        m \in {0, 3}}
    \cup {[FormDefault EXCEPT !.workout = TRUE, !.workout_intensity = 5]}
    \cup {[FormDefault EXCEPT !.melatonin_mg = 3, !.workout_intensity = 5]}
    \cup {[FormDefault EXCEPT !.breakfast = s] :
        s \in {<<" ">>, <<" ", "eggs", " ">>}}
    \cup {[FormDefault EXCEPT !.wake_time = 0]}
    \cup {[FormDefault EXCEPT !.dte = d] : d \in Dates}

\* Form inputs behind the tables of the trend runs: a day, and the fresh
\* form with the supplement, the sleep hours or the workout pair changed.
TrendProfiles ==
    << FormDefault,
       [FormDefault EXCEPT !.sleep_hours = 8],
       [FormDefault EXCEPT !.sleep_hours = 8, !.workout = TRUE,
                           !.workout_intensity = 5],
       [FormDefault EXCEPT !.supplement = SUPPLEMENT_OPTIONS[2],
                           !.sleep_hours = 6, !.workout = TRUE,
                           !.workout_intensity = 0] >>

TrendForm(n) ==
    [TrendProfiles[((n - 1) % Len(TrendProfiles)) + 1]
        EXCEPT !.dte = ((n - 1) \div Len(TrendProfiles)) + 1]

\* The table after the forms of fs were submitted in this order.
RECURSIVE TableOf(_)
TableOf(fs) ==
    IF fs = <<>> THEN <<>>
    ELSE save_row(TableOf(SubSeq(fs, 1, Len(fs) - 1)), Rec(fs[Len(fs)]))

\* The ascending sequences of at most MaxRows numbers of 1..n: one order of
\* submission for every multiset of forms.
Ascending(n) ==
    UNION { { ns \in [1..len -> 1..n] :
                \A i \in 1..(len - 1) : ns[i] <= ns[i + 1] } :
            len \in 0..MaxRows }

TrendTables ==
    { TableOf([i \in 1..Len(ns) |-> TrendForm(ns[i])]) :
        ns \in Ascending(MaxDate * Len(TrendProfiles)) }

---------------------------------------------------------------------------
(* The script *)

NoFrame == <<>>

NoRange == <<>>

\* What a run starts from: nothing loaded, nothing shown.
FreshRun ==
    /\ df' = NoFrame
    /\ supp_filter' = {}
    /\ date_range' = NoRange
    /\ v' = NoFrame
    /\ normed' = <<>>
    /\ comp' = <<>>

Init ==
    /\ store = <<>>
    /\ pc = "idle"
    /\ submitted = FALSE
    /\ form = FormDefault
    /\ insert_result = "none"
    /\ ui = {}
    /\ df = NoFrame
    /\ supp_filter = {}
    /\ date_range = NoRange
    /\ v = NoFrame
    /\ normed = <<>>
    /\ comp = <<>>

\* A run started by "Save entry" in which the insert succeeds: rec is built,
\* save_row appends the row, st.success shows "Saved!", and the script goes
\* on to the trends.
Submit(f) ==
    /\ pc = "idle"
    /\ Len(store) < MaxSaves
    /\ submitted' = TRUE
    /\ form' = f
    /\ store' = save_row(store, Rec(f))
    /\ insert_result' = "ok"
    /\ ui' = {"Saved!"}
    /\ pc' = "load"
    /\ FreshRun

\* SubmitRaises with the exception caught and dropped: the script goes on to
\* st.success and the trends.
SubmitSwallows(f) ==
    /\ pc = "idle"
    /\ submitted' = TRUE
    /\ form' = f
    /\ store' = store
    /\ insert_result' = "raised"
    /\ ui' = {"Saved!"}
    /\ pc' = "load"
    /\ FreshRun

\* A run started by "Save entry" in which execute() raises: the exception
\* leaves save_row and the script, the run ends showing the exception, and
\* neither st.success nor the trends are reached.
SubmitRaises(f) ==
    /\ pc = "idle"
    /\ submitted' = TRUE
    /\ form' = f
    /\ store' = store
    /\ insert_result' = "raised"
    /\ ui' = {"exception"}
    /\ pc' = "idle"
    /\ FreshRun

\* A run started by any other interaction: the submit block is skipped, and
\* the widget values of the form are not read.
Rerun ==
    /\ pc = "idle"
    /\ submitted' = FALSE
    /\ form' = FormDefault
    /\ store' = store
    /\ insert_result' = "none"
    /\ ui' = {}
    /\ pc' = "load"
    /\ FreshRun

\* df = load_df(), and the branch on df.empty.
Load ==
    /\ pc = "load"
    /\ \E data \in SelectOrderByDate(store) : df' = load_df(data)
    /\ IF df' = NoFrame
       THEN ui' = ui \cup {"No data yet"} /\ pc' = "idle"
       ELSE ui' = ui /\ pc' = "filter"
    /\ UNCHANGED <<store, submitted, form, insert_result, supp_filter,
                   date_range, v, normed, comp>>


---------------------------------------------------------------------------
(* The trend filters *)

\* sorted(df["supplement"].dropna().unique()): the multiselect's options.
supp_opts(d) == {d[i].supplement : i \in 1..Len(d)} \ {Null}

DateSet(d) == {d[i].date.d : i \in {j \in 1..Len(d) : d[j].date.k = "date"}}

\* df["date"].min() and df["date"].max()
dmin(d) == CHOOSE x \in DateSet(d) : \A y \in DateSet(d) : x <= y

dmax(d) == CHOOSE x \in DateSet(d) : \A y \in DateSet(d) : x >= y

\* mask with the end of the range excluded.
maskHalfOpen(d, sf, dr) ==
    [i \in 1..Len(d) |->
        /\ d[i].supplement \in sf
        /\ d[i].date.k = "date"
        /\ d[i].date.d >= dr[1]
        /\ d[i].date.d < dr[2]]

\* mask = isin(supp_filter) & (date >= date_range[0]) & (date <= date_range[1])
mask(d, sf, dr) ==
    [i \in 1..Len(d) |->
        /\ d[i].supplement \in sf
        /\ d[i].date.k = "date"
        /\ d[i].date.d >= dr[1]
        /\ d[i].date.d <= dr[2]]

\* df.loc[mask]: the rows whose mask is true, in the frame's order.
RECURSIVE loc(_, _)
loc(d, m) ==
    IF d = <<>> THEN <<>>
    ELSE LET rest == loc(SubSeq(d, 1, Len(d) - 1), SubSeq(m, 1, Len(m) - 1))
         IN  IF m[Len(m)] THEN Append(rest, d[Len(d)]) ELSE rest

\* One row put in its place in a frame sorted by date, after its equals.
RECURSIVE InsertByDate(_, _)
InsertByDate(sorted, r) ==
    IF sorted = <<>> THEN <<r>>
    ELSE IF sorted[Len(sorted)].date.d <= r.date.d THEN Append(sorted, r)
    ELSE Append(InsertByDate(SubSeq(sorted, 1, Len(sorted) - 1), r),
                sorted[Len(sorted)])

\* sort_values("date")
RECURSIVE sort_values(_)
sort_values(d) ==
    IF d = <<>> THEN <<>>
    ELSE InsertByDate(sort_values(SubSeq(d, 1, Len(d) - 1)), d[Len(d)])

\* v = df.loc[mask].sort_values("date")
Filtered(d, sf, dr) == sort_values(loc(d, mask(d, sf, dr)))

---------------------------------------------------------------------------
(* The composite performance *)

\* A normalized value: the float n / d, or NaN.
Frac(n, d) == [k |-> "frac", n |-> n, d |-> d]

NaN == Null

\* pd.to_numeric(v[c], errors="coerce")
Column(vv, c) == [i \in 1..Len(vv) |-> ToNumeric(vv[i][c])]

\* The non-missing values of a series: what max() and min() range over.
Present(s) == {s[i].n : i \in {j \in 1..Len(s) : s[j].k = "num"}}

SMax(s) == CHOOSE x \in Present(s) : \A y \in Present(s) : x >= y

SMin(s) == CHOOSE x \in Present(s) : \A y \in Present(s) : x <= y

\* norm without the test of rng: the division is done whatever rng is, and
\* 0.0 / 0.0 and NaN / NaN are NaN.
normUnguarded(s) ==
    [i \in 1..Len(s) |->
        IF s[i].k = "num" /\ SMax(s) - SMin(s) # 0
        THEN Frac(s[i].n - SMin(s), SMax(s) - SMin(s))
        ELSE NaN]

\* norm(s): rng = s.max() - s.min() is NaN when no value is present; then,
\* and when rng is 0, the result is 0.0 at every index; otherwise
\* (s - s.min()) / rng, which is NaN where s is.
norm(s) ==
    IF Present(s) = {} \/ SMax(s) - SMin(s) = 0
    THEN [i \in 1..Len(s) |-> Frac(0, 1)]
    ELSE LET lo == SMin(s)
             rng == SMax(s) - SMin(s)
         IN  [i \in 1..Len(s) |->
                IF s[i].k = "num" THEN Frac(s[i].n - lo, rng) ELSE NaN]

\* The columns of the composite that the frame has.
usable_cols(vv) ==
    SelectSeq(TRACKED_COLS, LAMBDA c : c \in DOMAIN vv[1])

\* a + b on floats: NaN when either is.
FracAdd(a, b) ==
    IF a = NaN \/ b = NaN THEN NaN
    ELSE Frac(a.n * b.d + b.n * a.d, a.d * b.d)

\* a / float(n)
FracDiv(a, n) == IF a = NaN THEN NaN ELSE Frac(a.n, a.d * n)

\* sum([...]) of the first n series at index i, starting from 0.
RECURSIVE SumAt(_, _, _)
SumAt(series, n, i) ==
    IF n = 0 THEN Frac(0, 1)
    ELSE FracAdd(SumAt(series, n - 1, i), series[n][i])

\* norm(v[c]) for each usable column, in the order of usable_cols.
Normed(vv) ==
    [n \in 1..Len(usable_cols(vv)) |-> norm(Column(vv, usable_cols(vv)[n]))]

\* The sum at index i of those of the first n series whose number is in S.
RECURSIVE SumAtIn(_, _, _, _)
SumAtIn(series, n, i, S) ==
    IF n = 0 THEN Frac(0, 1)
    ELSE IF n \in S THEN FracAdd(SumAtIn(series, n - 1, i, S), series[n][i])
    ELSE SumAtIn(series, n - 1, i, S)

\* The composite as the mean over the columns that have a value in the row:
\* NaN when none has.
CompositeOverPresent(vv) ==
    LET series == Normed(vv)
    IN  [i \in 1..Len(vv) |->
            LET here == {n \in 1..Len(series) :
                            Column(vv, usable_cols(vv)[n])[i].k = "num"}
            IN  IF here = {} THEN NaN
                ELSE FracDiv(SumAtIn(series, Len(series), i, here),
                             Cardinality(here))]

\* sum([norm(v[c]) for c in usable_cols]) / float(len(usable_cols))
Composite(vv) ==
    LET series == Normed(vv)
    IN  [i \in 1..Len(vv) |->
            FracDiv(SumAt(series, Len(series), i), Len(usable_cols(vv)))]

\* The trends section without the test of v.empty.
TrendShownAlways(vv) == {"line_chart", "composite_chart", "raw entries"}

\* What the trends section shows for a filtered frame.
TrendShown(vv) ==
    IF vv = <<>> THEN {"No records for the selected filters."}
    ELSE {"line_chart", "composite_chart", "raw entries"}

\* The choices the date_input offers: a start and an end, start first.
DateRanges == {dr \in Dates \X Dates : dr[1] <= dr[2]}

\* The filters are read, the mask is applied, and the charts are drawn
\* unless the filtered frame is empty.
Render(sf, dr) ==
    /\ pc = "filter"
    /\ supp_filter' = sf
    /\ date_range' = dr
    /\ v' = Filtered(df, sf, dr)
    /\ ui' = ui \cup TrendShown(v')
    /\ normed' = IF v' = <<>> THEN <<>> ELSE Normed(v')
    /\ comp' = IF v' = <<>> THEN <<>> ELSE Composite(v')
    /\ pc' = "idle"
    /\ UNCHANGED <<store, submitted, form, insert_result, df>>

RenderStep ==
    \E sf \in SUBSET supp_opts(df) : \E dr \in DateRanges : Render(sf, dr)

Next ==
    \/ \E f \in EntryForms : Submit(f)
    \/ \E f \in EntryForms : SubmitRaises(f)
    \/ Rerun
    \/ Load
    \/ RenderStep

Spec == Init /\ [][Next]_vars

---------------------------------------------------------------------------
(* The trends of one run, over every table of TrendTables *)

\* A run that is about to call load_df, nothing submitted in it.
AtLoad(table) ==
    /\ store = table
    /\ pc = "load"
    /\ submitted = FALSE
    /\ form = FormDefault
    /\ insert_result = "none"
    /\ ui = {}
    /\ df = NoFrame
    /\ supp_filter = {}
    /\ date_range = NoRange
    /\ v = NoFrame
    /\ normed = <<>>
    /\ comp = <<>>

InitTrend == \E table \in TrendTables : AtLoad(table)

NextTrend ==
    \/ Load
    \/ RenderStep

SpecTrend == InitTrend /\ [][NextTrend]_vars

---------------------------------------------------------------------------
(* One load_df, over tables that hold unparseable values *)

\* The stored row of a fresh form, and that row with one value the column
\* does not parse: a date, a time, an hour out of range, a number.
RawProfiles ==
    << Payload(Rec(FormDefault)),
       [Payload(Rec(FormDefault)) EXCEPT !.date = Bad],
       [Payload(Rec(FormDefault)) EXCEPT !.wake_time = Bad],
       [Payload(Rec(FormDefault)) EXCEPT !.dinner_time = Hms(25, 0, 0)],
       [Payload(Rec(FormDefault)) EXCEPT !.sleep_hours = Bad] >>

RawRow(n) ==
    LET r == RawProfiles[((n - 1) % Len(RawProfiles)) + 1]
        d == ((n - 1) \div Len(RawProfiles)) + 1
    IN  IF r.date = Bad THEN r ELSE [r EXCEPT !.date = IsoDate(d)]

RawTables ==
    { [i \in 1..Len(ns) |-> [id |-> Num(i)] @@ RawRow(ns[i])] :
        ns \in Ascending(MaxDate * Len(RawProfiles)) }

InitRead == \E table \in RawTables : AtLoad(table)

NextRead == Load

SpecRead == InitRead /\ [][NextRead]_vars

---------------------------------------------------------------------------
(* Properties of the entry runs (Spec) *)

\* load_df has returned in the current run.
Loaded ==
    \/ pc = "filter"
    \/ /\ pc = "idle"
       /\ ui \cap {"No data yet", "No records for the selected filters.",
                   "composite_chart"} # {}

\* C1: every stored row with melatonin_taken = false has melatonin_mg absent
\* (null, not 0), and every stored row with workout = false has
\* workout_intensity absent, whatever values the form held.
C1_DependentAbsent ==
    \A i \in 1..Len(store) :
        /\ store[i].melatonin_taken = Bool(FALSE) => store[i].melatonin_mg = Null
        /\ store[i].workout = Bool(FALSE) => store[i].workout_intensity = Null

\* A row was saved from a form with both boxes unchecked and both dependent
\* values entered non-zero.
C1_Witness ==
    /\ insert_result = "ok"
    /\ ~form.melatonin_taken /\ form.melatonin_mg # 0
    /\ ~form.workout /\ form.workout_intensity # 0
    /\ store[Len(store)].melatonin_mg = Null
    /\ store[Len(store)].workout_intensity = Null

\* The row read back equals the form input f field by field, the dependent
\* fields absent when their box is unchecked, the free texts compared with
\* the cells of texts.
RowEqualsInput(row, f, texts) ==
    /\ row.date = DateVal(f.dte)
    /\ row.supplement = Text(<<f.supplement>>)
    /\ row.sleep_hours = Num(f.sleep_hours)
    /\ row.melatonin_taken = Bool(f.melatonin_taken)
    /\ row.melatonin_mg = (IF f.melatonin_taken THEN Num(f.melatonin_mg) ELSE Null)
    /\ row.wake_time = TimeVal(f.wake_time)
    /\ row.workout = Bool(f.workout)
    /\ row.workout_intensity =
           (IF f.workout THEN Num(f.workout_intensity) ELSE Null)
    /\ row.sunlight_hours = Num(f.sunlight_hours)
    /\ row.dinner_time = TimeVal(f.dinner_time)
    /\ row.supplement_time = TimeVal(f.supplement_time)
    /\ row.am_med_efficacy = Num(f.am_med_efficacy)
    /\ row.afternoon_med_efficacy = Num(f.afternoon_med_efficacy)
    /\ row.pm_med_efficacy = Num(f.pm_med_efficacy)
    /\ \A c \in TEXT_FIELDS : row[c] = texts[c]

\* The text as entered, an empty text counted as absent.
AsEntered(s) == IF s = <<>> THEN Null ELSE Text(s)

\* The text without its leading and trailing whitespace, absent when nothing
\* is left.
AsTrimmed(s) ==
    LET core == { <<i, j>> \in (1..Len(s)) \X (1..Len(s)) :
                    /\ i <= j /\ s[i] # " " /\ s[j] # " "
                    /\ \A n \in 1..Len(s) : s[n] # " " => (i <= n /\ n <= j) }
    IN  IF core = {} THEN Null
        ELSE LET ij == CHOOSE x \in core : TRUE IN Text(SubSeq(s, ij[1], ij[2]))

\* The rows of the frame that are the row the current run saved.
ReadBack == {i \in 1..Len(df) : df[i].id = Num(Len(store))}

\* C2 as stated: the record read back equals the form input field by field,
\* free texts included.
C2_RoundTripAsEntered ==
    (insert_result = "ok" /\ Loaded) =>
        \E i \in ReadBack :
            RowEqualsInput(df[i], form, [c \in TEXT_FIELDS |-> AsEntered(form[c])])

\* C2 amended: the record read back equals the form input field by field
\* once each free text is trimmed, a text that is empty after trimming being
\* absent.
C2_RoundTripTrimmed ==
    (insert_result = "ok" /\ Loaded) =>
        \E i \in ReadBack :
            RowEqualsInput(df[i], form, [c \in TEXT_FIELDS |-> AsTrimmed(form[c])])

\* A form with a padded breakfast text was saved and read back trimmed.
C2_Witness ==
    /\ insert_result = "ok" /\ Loaded
    /\ form.breakfast = <<" ", "eggs", " ">>
    /\ \E i \in ReadBack : df[i].breakfast = Text(<<"eggs">>)

\* C7: a successful submission appends exactly one row holding the submitted
\* record, also when a row of the same content is stored already, and no step
\* changes or removes a stored row.
C7_AppendOnly ==
    [][ IF pc = "idle" /\ insert_result' = "ok"
        THEN /\ Len(store') = Len(store) + 1
             /\ SubSeq(store', 1, Len(store)) = store
             /\ LET sent == Payload(Rec(form'))
                IN  \A c \in DOMAIN sent : store'[Len(store')][c] = sent[c]
        ELSE store' = store ]_vars

\* Two submissions of the same content are two rows.
C7_Witness ==
    /\ Len(store) = 2
    /\ store[1].id # store[2].id
    /\ \A c \in DOMAIN store[1] \ {"id"} : store[1][c] = store[2][c]

\* C8: in a run started by a submission, "Saved!" is shown only when the
\* insert succeeded and the row is stored; when the insert raised, the
\* exception is what is shown, not "Saved!", and the store is as before.
C8_ConfirmAfterInsert ==
    [][ /\ (pc = "idle" /\ submitted') =>
              \/ /\ insert_result' = "ok"
                 /\ "Saved!" \in ui'
                 /\ Len(store') = Len(store) + 1
              \/ /\ insert_result' = "raised"
                 /\ ui' = {"exception"}
                 /\ store' = store
        /\ "Saved!" \in ui' => insert_result' = "ok" ]_vars

\* An insert raised after an earlier one had succeeded.
C8_Witness ==
    /\ insert_result = "raised"
    /\ ui = {"exception"}
    /\ Len(store) = 1

\* C10: the frame a run works on is read in that run, after the run's write:
\* it holds exactly the rows of the store, the row just saved included, and
\* the trend data is drawn from it.
C10_FreshRead ==
    Loaded =>
        /\ Len(df) = Len(store)
        /\ \A i \in 1..Len(store) :
              \E j \in 1..Len(df) : df[j] = ParseRow(store[i])
        /\ \A i \in 1..Len(v) : \E j \in 1..Len(df) : df[j] = v[i]

\* A run saved a second row and charted both rows.
C10_Witness ==
    /\ insert_result = "ok"
    /\ "composite_chart" \in ui
    /\ Len(store) = 2
    /\ Len(v) = 2

---------------------------------------------------------------------------
(* Properties of the trends (SpecTrend) *)

\* The filters of the current run were applied.
Rendered == pc = "idle" /\ date_range # NoRange

\* The charts of the current run were drawn.
Charted == pc = "idle" /\ "composite_chart" \in ui

\* The non-missing values of tracked column n in the filtered frame.
ValuesOf(n) ==
    {v[i][TRACKED_COLS[n]].n :
        i \in {j \in 1..Len(v) : v[j][TRACKED_COLS[n]].k = "num"}}

\* Column n has max > min.
Spread(n) == \E x, y \in ValuesOf(n) : x < y

IsZero(x) == x.k = "frac" /\ x.d # 0 /\ x.n = 0

IsOne(x) == x.k = "frac" /\ x.d # 0 /\ x.n = x.d

\* C3: in a tracked column with max > min the maximum normalizes to 1.0 and
\* the minimum to 0.0; in a column with max = min, a single value or no value
\* at all, every normalized value is 0.0, never NaN.
C3_NormEndpoints ==
    Charted =>
        \A n \in 1..Len(TRACKED_COLS) :
            IF Spread(n)
            THEN \A i \in 1..Len(v) :
                    LET x == v[i][TRACKED_COLS[n]]
                    IN  x.k = "num" =>
                          /\ (\A y \in ValuesOf(n) : y <= x.n) => IsOne(normed[n][i])
                          /\ (\A y \in ValuesOf(n) : y >= x.n) => IsZero(normed[n][i])
            ELSE \A i \in 1..Len(v) : IsZero(normed[n][i])

\* Three rows were charted: sleep_hours has max > min, workout_intensity is
\* missing in every row, and the other columns have max = min.
C3_Witness ==
    /\ Charted
    /\ Len(v) = 3
    /\ Spread(1)
    /\ ValuesOf(3) = {}
    /\ Cardinality(ValuesOf(4)) = 1

\* a = b as numbers
RatEq(a, b) == a.n * b.d = b.n * a.d

\* The tracked columns with a value in row i.
PresentAt(i) ==
    {n \in 1..Len(TRACKED_COLS) : v[i][TRACKED_COLS[n]].k = "num"}

Count(x, d) == Cardinality({i \in 1..Len(d) : d[i] = x})

\* The filters hold their defaults: every supplement of the frame, and the
\* range from the least to the greatest date of the frame.
DefaultFilters ==
    /\ supp_filter = {df[i].supplement : i \in 1..Len(df)}
    /\ \E i \in 1..Len(df) : df[i].date = DateVal(date_range[1])
    /\ \E i \in 1..Len(df) : df[i].date = DateVal(date_range[2])
    /\ \A i \in 1..Len(df) :
          date_range[1] <= df[i].date.d /\ df[i].date.d <= date_range[2]

\* C5: under the default filters the filtered frame holds every fetched row,
\* none dropped and none added.
C5_DefaultIsIdentity ==
    (Rendered /\ DefaultFilters) =>
        /\ Len(v) = Len(df)
        /\ \A i \in 1..Len(df) : Count(df[i], v) = Count(df[i], df)

\* The default filters over three rows of two supplements and two dates.
C5_Witness ==
    /\ Rendered /\ DefaultFilters
    /\ Len(df) = 3
    /\ Cardinality(supp_filter) = 2
    /\ date_range[1] < date_range[2]

\* No row of the frame has its supplement selected and its date in the range.
NothingMatches ==
    \A i \in 1..Len(df) :
        ~ /\ df[i].supplement \in supp_filter
          /\ date_range[1] <= df[i].date.d
          /\ df[i].date.d <= date_range[2]

\* C6: filters that no row matches give the empty frame and the "no records"
\* message: no exception, no chart, no normalization, no composite.
C6_EmptyNotError ==
    (Rendered /\ NothingMatches) =>
        /\ v = <<>>
        /\ "No records for the selected filters." \in ui
        /\ ui \cap {"exception", "line_chart", "composite_chart", "raw entries"} = {}
        /\ normed = <<>>
        /\ comp = <<>>

\* A supplement is selected, and its rows lie outside the date range.
C6_Witness ==
    /\ Rendered /\ NothingMatches
    /\ supp_filter # {}
    /\ Len(df) >= 2

---------------------------------------------------------------------------
(* Properties of load_df over unparseable values (SpecRead) *)

\* Value x of column c is one load_df cannot parse.
Unparseable(c, x) ==
    /\ x # Null
    /\ \/ c = "date" /\ x.k # "isodate"
       \/ c \in TIME_COLS /\ ~(x.k = "hms" /\ x.h < 24 /\ x.m < 60 /\ x.s < 60)
       \/ c \in NUMERIC_COLS /\ x.k # "num"

Malformed(r) == \E c \in DOMAIN r : Unparseable(c, r[c])

\* The typed value load_df gives for a value it can parse.
Typed(c, x) ==
    IF x = Null THEN Null
    ELSE IF c = "date" THEN DateVal(x.d)
    ELSE IF c \in TIME_COLS THEN TimeVal(3600 * x.h + 60 * x.m + x.s)
    ELSE x

\* C9 as stated: the read skips every row with an unparseable value and
\* returns every other row.
C9_MalformedSkipped ==
    Loaded =>
        \A i \in 1..Len(store) :
            IF Malformed(store[i])
            THEN \A j \in 1..Len(df) : df[j].id # store[i].id
            ELSE \E j \in 1..Len(df) :
                    \A c \in DOMAIN store[i] : df[j][c] = Typed(c, store[i][c])

\* C9 amended: the read does not abort and skips no row; an unparseable
\* value is returned as missing, and every other value of every row is
\* returned as stored.
C9_MalformedKept ==
    Loaded =>
        /\ Len(df) = Len(store)
        /\ \A i \in 1..Len(store) :
              \E j \in 1..Len(df) :
                  /\ df[j].id = store[i].id
                  /\ \A c \in DOMAIN store[i] :
                        df[j][c] = IF Unparseable(c, store[i][c]) THEN Null
                                   ELSE Typed(c, store[i][c])

\* A table of a well-formed row and a row with an unparseable date was read.
C9_Witness ==
    /\ pc = "filter"
    /\ \E i \in 1..Len(store) : ~Malformed(store[i])
    /\ \E i \in 1..Len(store) :
          /\ store[i].date = Bad
          /\ \E j \in 1..Len(df) : df[j].id = store[i].id /\ df[j].date = Null

===========================================================================
